---- MODULE Spec2Model ----
(***************************************************************************)
(* Streaming wire framing of segmented, word-aligned messages              *)
(* (src/serialize.rs): the segment-table codec and the asynchronous read   *)
(* and write pipelines built on it.  A pipeline is a chain of promise      *)
(* continuations; every action below is one continuation (closure) of the  *)
(* source, run when the I/O operation it waits for resolves.               *)
(***************************************************************************)
EXTENDS Integers, Sequences, FiniteSets, TLC

\* ------------------------------------------------------------------ bounds
\* Largest segment count of a builder handed to write_message.
MaxSegs == 3
\* Largest word length of one segment of such a builder.
MaxWords == 1
\* Largest number of write_message calls on the write end of the transport.
MaxMsgs == 2
\* Segment table codec taken alone: largest small segment count, and
\* largest declared segment length.
MaxTableSegs == 4
MaxLen == 3

\* --------------------------------------------------------- program constants
\* try_read_segment_table rejects segment_count >= 512.
SegmentCountLimit == 512
\* The first header read asks for 8 bytes; a Word is 8 bytes.
BytesPerWord == 8

VARIABLES
    pool,      \* the builders the caller owns and may pass to write_message
    wire,      \* the bytes put on the transport so far, in order
    closed,    \* the write end is closed (or dropped): reads see EOF after wire
    held,      \* the stream handles the caller owns at this moment
    wr,        \* the write_message pipeline
    wlog,      \* the writes the current write_message call issued, in order
    written,   \* the builders of the write_message calls that succeeded
    rd,        \* the read_message / try_read_message pipeline
    rpos,      \* per read stream: bytes consumed from the transport
    first      \* per read stream: result of the first call made on it

vars == <<pool, wire, closed, held, wr, wlog, written, rd, rpos, first>>

\* ------------------------------------------------------------------ helpers
Min(a, b) == IF a < b THEN a ELSE b

\* vec![0; n]
Zeros(n) == [i \in 1..n |-> 0]

\* x & !1
ClearLowBit(x) == x - (x % 2)

\* buf[off .. off + Len(bytes)] = bytes   (off is 0-based, as in the source)
Store(buf, off, bytes) ==
    SubSeq(buf, 1, off) \o bytes \o SubSeq(buf, off + Len(bytes) + 1, Len(buf))

\* Mutant of write_u32: the most significant byte comes first.
write_u32_BigEndian(v) ==
    <<(v \div 16777216) % 256, (v \div 65536) % 256, (v \div 256) % 256, v % 256>>

\* LittleEndian::write_u32
write_u32(v) ==
    <<v % 256, (v \div 256) % 256, (v \div 65536) % 256, (v \div 16777216) % 256>>

\* LittleEndian::read_u32(&buf[off .. off + 4])
read_u32(buf, off) ==
    buf[off + 1] + 256 * buf[off + 2] + 65536 * buf[off + 3]
        + 16777216 * buf[off + 4]

\* LittleEndian::read_u32(&buf[0..4]).wrapping_add(1): 0xFFFFFFFF wraps to 0.
wrapping_add_1(buf) ==
    IF SubSeq(buf, 1, 4) = <<255, 255, 255, 255>> THEN 0 ELSE read_u32(buf, 0) + 1

\* Word::words_to_bytes: the words' memory, word after word.
words_to_bytes(words) ==
    [i \in 1..(BytesPerWord * Len(words)) |->
        words[((i - 1) \div BytesPerWord) + 1][((i - 1) % BytesPerWord) + 1]]

\* The words whose memory is `bytes` (Len(bytes) a multiple of 8):
\* what a WordVec holds after a read wrote `bytes` through as_mut().
bytes_to_words(bytes) ==
    [w \in 1..(Len(bytes) \div BytesPerWord) |->
        [i \in 1..BytesPerWord |-> bytes[(w - 1) * BytesPerWord + i]]]

\* Word::allocate_zeroed_vec(n)
allocate_zeroed_vec(n) == [w \in 1..n |-> Zeros(BytesPerWord)]

\* ------------------------------------------------------------------ inputs
\* A word with eight distinct bytes, different for different k.
WordOf(k) == [i \in 1..BytesPerWord |-> (16 * k + i) % 256]

\* The builder whose segment i (1-based) has lens[i] words; every word of
\* the message differs from every other.
BuilderOf(lens) ==
    [i \in 1..Len(lens) |-> [j \in 1..lens[i] |-> WordOf((MaxWords + 1) * i + j)]]

Builders ==
    UNION {{BuilderOf(lens) : lens \in [1..n -> 0..MaxWords]} : n \in 1..MaxSegs}

\* Two different builders the caller may own together, to write one after
\* the other in either order.
PairPools == {{BuilderOf(<<1>>), BuilderOf(<<0, 1>>)}}

\* Byte strings a peer that is not this encoder may put on the transport:
\* count fields that decode to 0, 512, 513 and 2^24 + 1 segments, a
\* two-segment header with a non-zero padding slot, a one-word message,
\* and a four-segment message whose second segment has one word, its
\* padding slot non-zero too.
RawInputs ==
    { <<3, 0, 0, 0,  0, 0, 0, 0,  1, 0, 0, 0,  0, 0, 0, 0,
        0, 0, 0, 0,  7, 7, 7, 7>> \o WordOf(4),
      <<255, 255, 255, 255, 1, 0, 0, 0>> \o WordOf(1),
      <<255, 1, 0, 0, 1, 0, 0, 0>> \o WordOf(1),
      <<0, 2, 0, 0, 0, 0, 0, 0>>,
      <<0, 0, 0, 1, 0, 0, 0, 0>>,
      <<1, 0, 0, 0, 0, 0, 0, 0, 1, 0, 0, 0, 7, 7, 7, 7>> \o WordOf(2),
      <<0, 0, 0, 0, 1, 0, 0, 0>> \o WordOf(3) }

\* The transport may end anywhere in such a byte string.
RawWires == UNION {{SubSeq(w, 1, k) : k \in 1..Len(w)} : w \in RawInputs}

\* Stream handles: the write end, and two independent read streams over
\* the same bytes.
WriteStream == "w"
FirstStream == "r1"
TwinStream == "r2"
ReadStreams == {FirstStream, TwinStream}
NoStream == "none"

\* ---------------------------------------------------------------- results
\* Option<message::Reader<OwnedSegments>>
None == [some |-> FALSE, segment_slices |-> <<>>, owned_space |-> <<>>]
Some(segments) ==
    [some |-> TRUE, segment_slices |-> segments.segment_slices,
     owned_space |-> segments.owned_space]

\* A promise's state: not yet resolved, Ok((stream, value)), or
\* Err(e.error.into()): the error alone; the stream that the I/O error
\* carried in e.state is not part of it.  `empty` stands for "no value".
Pending(empty) == [kind |-> "Pending", stream |-> NoStream, value |-> empty, error |-> ""]
Ok(stream, value) == [kind |-> "Ok", stream |-> stream, value |-> value, error |-> ""]
Err(error, empty) == [kind |-> "Err", stream |-> NoStream, value |-> empty, error |-> error]

\* ------------------------------------------------------- stream primitive
\* AsyncRead::try_read(buf, min_bytes) on a closed transport with `avail`
\* bytes left: the byte counts it may return.  It keeps reading until
\* min_bytes are in or the stream ends, and never returns more than the
\* buffer holds; how the transport splits the bytes decides the rest.
TryReadCounts(avail, buflen, min_bytes) ==
    IF avail >= min_bytes THEN min_bytes..Min(avail, buflen) ELSE {avail}

\* The buffer after n bytes of `data` were read into its front.
FillBuffer(buf, data, n) == Store(buf, 0, SubSeq(data, 1, n))

\* What is left on the transport for stream s.
Unread(s) == SubSeq(wire, rpos[s] + 1, Len(wire))

\* ----------------------------------------------------------- OwnedSegments
\* Mutant of get_segment: the whole buffer is served for every segment.
get_segment_WholeSpace(self, id) ==
    IF id < Len(self.segment_slices)
    THEN [some |-> TRUE, words |-> self.owned_space]
    ELSE [some |-> FALSE, words |-> <<>>]

\* OwnedSegments::get_segment
get_segment(self, id) ==
    IF id < Len(self.segment_slices)
    THEN LET ab == self.segment_slices[id + 1]
         IN  [some |-> TRUE, words |-> SubSeq(self.owned_space, ab[1] + 1, ab[2])]
    ELSE [some |-> FALSE, words |-> <<>>]

\* ------------------------------------------------------- segment table codec
\* Mutant of SegmentTableLen: the slot count is not rounded to a whole word.
SegmentTableLen_Unpadded(segment_count) == (2 + segment_count) * 4

\* write_segment_table: the length of the header buffer.
SegmentTableLen(segment_count) == ClearLowBit(2 + segment_count) * 4

\* Mutant of WriteLengths: length idx is stored at slot idx, over the count.
RECURSIVE WriteLengths_SlotOff(_, _, _, _)
WriteLengths_SlotOff(buf, segments, lo, hi) ==
    IF hi <= lo THEN buf
    ELSE IF hi = lo + 1
    THEN Store(buf, lo * 4, write_u32(Len(segments[lo + 1])))
    ELSE LET mid == (lo + hi) \div 2
             done == WriteLengths_SlotOff(buf, segments, lo, mid)
         IN  IF Len(done) = Len(buf)
             THEN WriteLengths_SlotOff(done, segments, mid, hi)
             ELSE done

\* write_segment_table: the for loop that stores the segment lengths, for
\* idx in lo..hi-1.  The range is split in halves, which leaves the stores
\* and their order as they are and keeps the evaluation shallow; the test
\* on the first half's length, always true, makes it the first evaluated.
RECURSIVE WriteLengths(_, _, _, _)
WriteLengths(buf, segments, lo, hi) ==
    IF hi <= lo THEN buf
    ELSE IF hi = lo + 1
    THEN Store(buf, (lo + 1) * 4, write_u32(Len(segments[lo + 1])))
    ELSE LET mid == (lo + hi) \div 2
             done == WriteLengths(buf, segments, lo, mid)
         IN  IF Len(done) = Len(buf)
             THEN WriteLengths(done, segments, mid, hi)
             ELSE done

\* Mutant of SegmentTableBuf: the count field holds the segment count.
SegmentTableBuf_CountAsIs(segments) ==
    WriteLengths(Store(Zeros(SegmentTableLen(Len(segments))), 0,
                       write_u32(Len(segments))),
                 segments, 0, Len(segments))

\* write_segment_table: the header buffer handed to stream.write.
SegmentTableBuf(segments) ==
    LET segment_count == Len(segments)
    IN  WriteLengths(Store(Zeros(SegmentTableLen(segment_count)), 0,
                           write_u32(segment_count - 1)),
                     segments, 0, segment_count)

\* Mutant of RestBuf: one slot per remaining length, not rounded to a word.
RestBuf_Unrounded(segment_count, buf) == Zeros(4 * (segment_count - 1))

\* try_read_segment_table: the buffer of the second header read; the
\* 8-byte scratch buffer, first word still in it, when segment_count = 2.
RestBuf(segment_count, buf) ==
    IF segment_count = 2 THEN buf ELSE Zeros(4 * ClearLowBit(segment_count))

\* Mutant of ParseLengths: a slice ends at the segment's length, not at
\* its offset plus its length.
RECURSIVE ParseLengths_EndIsLen(_, _, _, _)
ParseLengths_EndIsLen(buf, lo, hi, total_words) ==
    IF hi <= lo THEN <<total_words, <<>>>>
    ELSE IF hi = lo + 1
    THEN LET segment_len == read_u32(buf, lo * 4)
         IN  <<total_words + segment_len, <<<<total_words, segment_len>>>>>>
    ELSE LET mid == (lo + hi) \div 2
             left == ParseLengths_EndIsLen(buf, lo, mid, total_words)
             right == ParseLengths_EndIsLen(buf, mid, hi, left[1])
         IN  IF Len(left[2]) = mid - lo
             THEN <<right[1], left[2] \o right[2]>>
             ELSE left

\* try_read_segment_table: the for loop over the remaining lengths, for
\* idx in lo..hi-1, entered with total_words; split in halves like
\* WriteLengths, the always true test making the first half the first
\* evaluated.  Result: <<total_words, the slices pushed>>.
RECURSIVE ParseLengths(_, _, _, _)
ParseLengths(buf, lo, hi, total_words) ==
    IF hi <= lo THEN <<total_words, <<>>>>
    ELSE IF hi = lo + 1
    THEN LET segment_len == read_u32(buf, lo * 4)
         IN  <<total_words + segment_len,
               <<<<total_words, total_words + segment_len>>>>>>
    ELSE LET mid == (lo + hi) \div 2
             left == ParseLengths(buf, lo, mid, total_words)
             right == ParseLengths(buf, mid, hi, left[1])
         IN  IF Len(left[2]) = mid - lo
             THEN <<right[1], left[2] \o right[2]>>
             ELSE left

\* ------------------------------------------------------------ initial state
IdleWrite == [pc |-> "idle", given |-> <<>>, message |-> <<>>, segments |-> <<>>,
              idx |-> 0, out |-> Pending(<<>>)]

IdleRead == [pc |-> "idle", op |-> "", stream |-> NoStream, start |-> 0,
             buf |-> <<>>, segment_count |-> 0, total_words |-> 0,
             segment_slices |-> <<>>, nreads |-> 0, allocated |-> FALSE,
             table |-> "", io |-> <<>>, out |-> Pending(None)]

\* Either the caller owns one or two builders and the open write end of an empty
\* transport, or a foreign peer has put bytes on the transport and gone.
Init ==
    /\ \/ /\ pool \in {{m} : m \in Builders} \cup PairPools
          /\ wire = <<>>
          /\ closed = FALSE
          /\ held = {WriteStream} \cup ReadStreams
       \/ /\ pool = {}
          /\ wire \in RawWires
          /\ closed = TRUE
          /\ held = ReadStreams
    /\ wr = IdleWrite
    /\ wlog = <<>>
    /\ written = <<>>
    /\ rd = IdleRead
    /\ rpos = [s \in ReadStreams |-> 0]
    /\ first = [s \in ReadStreams |-> Pending(None)]

\* ------------------------------------------------------------ write pipeline
\* OutputSegmentsContainer::new: message.get_segments_for_output(), kept
\* beside the builder it borrows from.
OutputSegmentsContainer_new(message) == [message |-> message, segments |-> message]

\* Mutant of WritingSegment_as_ref: the index is ignored.
WritingSegment_as_ref_First(segments, idx) == words_to_bytes(segments[1])

\* WritingSegment::as_ref
WritingSegment_as_ref(segments, idx) == words_to_bytes(segments[idx + 1])

\* A write issued on the stream: what it carries and where its bytes go.
WriteIssued(what, idx, buf) ==
    [what |-> what, idx |-> idx, at |-> Len(wire), len |-> Len(buf)]

\* Mutant of write_message: the write of segment 0 is issued together
\* with the header write.
write_message_IssuesTwo(message) ==
    /\ wr.pc = "idle" /\ rd.pc = "idle"
    /\ ~closed
    /\ WriteStream \in held
    /\ Len(written) < MaxMsgs
    /\ message \in pool
    /\ wr' = [IdleWrite EXCEPT !.pc = "table", !.given = message,
                               !.message = message, !.segments = message]
    /\ wlog' = <<WriteIssued("table", 0, SegmentTableBuf(message)),
                 WriteIssued("segment", 0, words_to_bytes(message[1]))>>
    /\ held' = held \ {WriteStream}
    /\ pool' = pool \ {message}
    /\ UNCHANGED <<wire, closed, written, rd, rpos, first>>

\* write_message, up to the write that write_segment_table issues.  The
\* stream and the builder are moved into the pipeline.
write_message(message) ==
    /\ wr.pc = "idle" /\ rd.pc = "idle"
    /\ ~closed
    /\ WriteStream \in held
    /\ Len(written) < MaxMsgs
    /\ message \in pool
    /\ LET c == OutputSegmentsContainer_new(message)
       IN  /\ wr' = [IdleWrite EXCEPT !.pc = "table", !.given = message,
                                      !.message = c.message, !.segments = c.segments]
           /\ wlog' = <<WriteIssued("table", 0, SegmentTableBuf(c.segments))>>
    /\ held' = held \ {WriteStream}
    /\ pool' = pool \ {message}
    /\ UNCHANGED <<wire, closed, written, rd, rpos, first>>

\* Mutant of write_segments_loop: a segment is taken out of the builder
\* once it is written.
write_segments_loop_Taking(idx) ==
    LET taken == IF idx >= 1 THEN [wr.message EXCEPT ![idx] = <<>>] ELSE wr.message
    IN  IF idx >= Len(wr.segments)
        THEN <<[wr EXCEPT !.pc = "segments_done", !.idx = idx, !.message = taken],
               wlog>>
        ELSE <<[wr EXCEPT !.pc = "segment", !.idx = idx, !.message = taken],
               Append(wlog, [what |-> "segment", idx |-> idx, at |-> Len(wire'),
                             len |-> Len(words_to_bytes(wr.segments[idx + 1]))])>>

\* write_segments_loop(stream, segments, idx), entered with the previous
\* write complete: the pipeline record and the write log after it.
write_segments_loop(idx) ==
    IF idx >= Len(wr.segments)
    THEN <<[wr EXCEPT !.pc = "segments_done", !.idx = idx], wlog>>
    ELSE <<[wr EXCEPT !.pc = "segment", !.idx = idx],
           Append(wlog, [what |-> "segment", idx |-> idx,
                         at |-> Len(wire'),
                         len |-> Len(WritingSegment_as_ref(wr.segments, idx))])>>

\* stream.write(buf) succeeded: all of buf is on the transport, and the
\* closure goes on with write_segments_loop(stream, segments, idx).
WriteDone(buf, idx) ==
    /\ wire' = wire \o buf
    /\ wr' = write_segments_loop(idx)[1]
    /\ wlog' = write_segments_loop(idx)[2]
    /\ UNCHANGED <<pool, closed, held, written, rd, rpos, first>>

\* stream.write(buf) failed: some of buf may have reached the transport;
\* the closure keeps e.error and drops e.state, the stream with it.
WriteFailed(buf) ==
    /\ \E k \in 0..(IF Len(buf) = 0 THEN 0 ELSE Len(buf) - 1) :
          wire' = wire \o SubSeq(buf, 1, k)
    /\ wr' = [wr EXCEPT !.pc = "done", !.out = Err("IoFailure", <<>>)]
    /\ closed' = TRUE
    /\ UNCHANGED <<pool, held, wlog, written, rd, rpos, first>>

\* write_segment_table's closure on the header write, then write_message's
\* first closure: write_segments(stream, segments).
TableWritten ==
    /\ wr.pc = "table"
    /\ \/ WriteDone(SegmentTableBuf(wr.segments), 0)
       \/ WriteFailed(SegmentTableBuf(wr.segments))

\* write_segments_loop's closure on the write of segment idx.
SegmentWritten ==
    /\ wr.pc = "segment"
    /\ \/ WriteDone(WritingSegment_as_ref(wr.segments, wr.idx), wr.idx + 1)
       \/ WriteFailed(WritingSegment_as_ref(wr.segments, wr.idx))

\* write_message's last closure: Ok((stream, segments.message)).
WriteMessageMap ==
    /\ wr.pc = "segments_done"
    /\ wr' = [wr EXCEPT !.pc = "done", !.out = Ok(WriteStream, wr.message)]
    /\ written' = Append(written, [message |-> wr.given, at |-> wlog[1].at])
    /\ UNCHANGED <<pool, wire, closed, held, wlog, rd, rpos, first>>

\* The caller takes the resolved promise: the stream and the builder on
\* success, the error alone on failure.
WriteReturns ==
    /\ wr.pc = "done"
    /\ held' = IF wr.out.kind = "Ok" THEN held \cup {wr.out.stream} ELSE held
    /\ pool' = IF wr.out.kind = "Ok" THEN pool \cup {wr.out.value} ELSE pool
    /\ wr' = IdleWrite
    /\ UNCHANGED <<wire, closed, wlog, written, rd, rpos, first>>

\* The caller drops the write end; readers then see the end of the stream.
CloseWriteEnd ==
    /\ wr.pc = "idle"
    /\ ~closed
    /\ WriteStream \in held
    /\ closed' = TRUE
    /\ held' = held \ {WriteStream}
    /\ UNCHANGED <<pool, wire, wr, wlog, written, rd, rpos, first>>

\* ------------------------------------------------------------- read pipeline
\* The order in which the caller uses its two independent read streams:
\* any number of calls on the first, then one call on the twin.
CallerMayRead(s) ==
    /\ s = FirstStream => first[TwinStream].kind = "Pending" /\ TwinStream \in held
    /\ s = TwinStream => first[FirstStream].kind # "Pending"
                            /\ first[TwinStream].kind = "Pending"

\* The stream handle is moved into the pipeline and the first header read,
\* stream.try_read(vec![0; 8], 8), is issued.
StartRead(s, op) ==
    /\ rd.pc = "idle" /\ wr.pc = "idle"
    /\ closed
    /\ s \in held \cap ReadStreams
    /\ CallerMayRead(s)
    /\ rd' = [IdleRead EXCEPT !.pc = "first", !.op = op, !.stream = s,
                              !.start = rpos[s],
                              !.buf = Zeros(BytesPerWord), !.nreads = 1]
    /\ held' = held \ {s}
    /\ UNCHANGED <<pool, wire, closed, wr, wlog, written, rpos, first>>

\* try_read_message(stream, options)
try_read_message(s) == StartRead(s, "try_read_message")

\* read_message(stream, options)
read_message(s) == StartRead(s, "read_message")

\* Mutant of ReadFailed: the header read is issued again.
ReadFailed_Retries(r, error) ==
    IF r.nreads = 1
    THEN [r EXCEPT !.pc = "first", !.buf = Zeros(BytesPerWord), !.nreads = @ + 1]
    ELSE [r EXCEPT !.pc = "done", !.buf = <<>>, !.out = Err(error, None)]

\* A promise of the read pipeline failed: then / map skip their closures,
\* so the error is the pipeline's result.
ReadFailed(r, error) == [r EXCEPT !.pc = "done", !.buf = <<>>, !.out = Err(error, None)]

\* Mutant of InnerResolved: the promise resolves without the stream.
InnerResolved_LosesStream(r, v) ==
    [r EXCEPT !.pc = IF r.op = "read_message" THEN "mapping" ELSE "done",
              !.buf = <<>>, !.out = Ok(NoStream, v)]

\* try_read_message's promise resolved with Ok((s, v)): the caller of
\* try_read_message has its result; read_message's map closure is next.
InnerResolved(r, v) ==
    [r EXCEPT !.pc = IF r.op = "read_message" THEN "mapping" ELSE "done",
              !.buf = <<>>, !.out = Ok(r.stream, v)]

\* Mutant of FirstMinBytes: the first header read is content with one byte.
FirstMinBytes_One == BytesPerWord - 7

\* The minimum byte counts the three reads are issued with.
FirstMinBytes == BytesPerWord
\* Mutants of RestMinBytes and SegmentsMinBytes: no minimum is asked for.
RestMinBytes_Zero(buf_len) == 0
SegmentsMinBytes_Zero(len) == 0
RestMinBytes(buf_len) == buf_len
SegmentsMinBytes(len) == len

\* A read on the stream of pipeline r returned n bytes.
ReadReturned(r, n) == [r EXCEPT !.io = Append(@, [want |-> Len(r.buf), n |-> n])]

\* try_read_segment_table's first closure, from `Ok((stream, buf, _))` on:
\* the segment count and the first length are parsed from the first word.
FirstWordParsed(r, buf) ==
    LET segment_count == wrapping_add_1(buf)
        total_words == read_u32(buf, 4)
    IN  IF segment_count >= SegmentCountLimit \/ segment_count = 0
        THEN \* unimplemented!()
             [r EXCEPT !.pc = "panicked", !.buf = <<>>,
                       !.segment_count = segment_count]
        ELSE IF segment_count > 1
        THEN \* stream.read(buf, buf_len)
             [r EXCEPT !.pc = "rest", !.buf = RestBuf(segment_count, buf),
                       !.segment_count = segment_count,
                       !.total_words = total_words,
                       !.segment_slices = <<<<0, total_words>>>>,
                       !.nreads = @ + 1]
        ELSE [r EXCEPT !.pc = "table", !.buf = <<>>, !.table = "Some",
                       !.segment_count = segment_count,
                       !.total_words = total_words,
                       !.segment_slices = <<<<0, total_words>>>>]

\* try_read_segment_table's closure on stream.try_read(buf, 8) that
\* returned n bytes of `data`.
FirstWordClosure(r, data, n) ==
    IF n = 0 THEN [r EXCEPT !.pc = "table", !.buf = <<>>, !.table = "None"]
    ELSE IF n < 8 THEN ReadFailed(r, "PrematureEOF")
    ELSE FirstWordParsed(r, FillBuffer(r.buf, data, n))

\* Mutant of RestClosure: total_words is not advanced by the loop.
RestClosure_TotalNotAdvanced(r, data, n) ==
    IF n < Len(r.buf) THEN [r EXCEPT !.pc = "done", !.buf = <<>>,
                                     !.out = Err("PrematureEOF", None)]
    ELSE LET buf == Store(r.buf, 0, SubSeq(data, 1, n))
             t == ParseLengths(buf, 0, r.segment_count - 1, r.total_words)
         IN  [r EXCEPT !.pc = "table", !.buf = <<>>, !.table = "Some",
                       !.segment_slices = r.segment_slices \o t[2]]

\* try_read_segment_table's closure on stream.read(buf, buf_len) that
\* returned n bytes; read itself fails with a premature EOF when fewer
\* than its min_bytes came.
RestClosure(r, data, n) ==
    IF n < RestMinBytes(Len(r.buf)) THEN ReadFailed(r, "PrematureEOF")
    ELSE LET buf == FillBuffer(r.buf, data, n)
             t == ParseLengths(buf, 0, r.segment_count - 1, r.total_words)
         IN  [r EXCEPT !.pc = "table", !.buf = <<>>, !.table = "Some",
                       !.total_words = t[1],
                       !.segment_slices = r.segment_slices \o t[2]]

\* Mutant of read_segments: the buffer is one word too long.
read_segments_OneMore(r) ==
    [r EXCEPT !.pc = "segments", !.allocated = TRUE,
              !.buf = words_to_bytes(allocate_zeroed_vec(r.total_words + 1)),
              !.nreads = @ + 1]

\* read_segments, up to the read it issues.
read_segments(r) ==
    [r EXCEPT !.pc = "segments", !.allocated = TRUE,
              !.buf = words_to_bytes(allocate_zeroed_vec(r.total_words)),
              !.nreads = @ + 1]

\* read_segments' closure on stream.read(owned_space, len) that returned
\* n bytes, and the map closure of try_read_message that wraps the message
\* in Some.
SegmentsClosure(r, data, n) ==
    IF n < SegmentsMinBytes(Len(r.buf)) THEN ReadFailed(r, "PrematureEOF")
    ELSE LET vec == bytes_to_words(FillBuffer(r.buf, data, n))
             segments == [segment_slices |-> r.segment_slices, owned_space |-> vec]
         IN  InnerResolved(r, Some(segments))

\* The read outstanding on rd's stream resolves: with an I/O failure, or
\* with n bytes, which `closure` then handles.
FirstWordRead ==
    /\ rd.pc = "first"
    /\ \/ /\ rd' = ReadFailed(rd, "IoFailure")
          /\ UNCHANGED rpos
       \/ \E n \in TryReadCounts(Len(Unread(rd.stream)), Len(rd.buf), FirstMinBytes) :
             /\ rpos' = [rpos EXCEPT ![rd.stream] = @ + n]
             /\ rd' = FirstWordClosure(ReadReturned(rd, n), Unread(rd.stream), n)
    /\ UNCHANGED <<pool, wire, closed, held, wr, wlog, written, first>>

RestRead ==
    /\ rd.pc = "rest"
    /\ \/ /\ rd' = ReadFailed(rd, "IoFailure")
          /\ UNCHANGED rpos
       \/ \E n \in TryReadCounts(Len(Unread(rd.stream)), Len(rd.buf),
                                 RestMinBytes(Len(rd.buf))) :
             /\ rpos' = [rpos EXCEPT ![rd.stream] = @ + n]
             /\ rd' = RestClosure(ReadReturned(rd, n), Unread(rd.stream), n)
    /\ UNCHANGED <<pool, wire, closed, held, wr, wlog, written, first>>

\* try_read_message's closure on the segment table: read_segments, or
\* Promise::fulfilled((s, None)).
TableRead ==
    /\ rd.pc = "table"
    /\ rd' = IF rd.table = "Some" THEN read_segments(rd) ELSE InnerResolved(rd, None)
    /\ UNCHANGED <<pool, wire, closed, held, wr, wlog, written, rpos, first>>

SegmentsRead ==
    /\ rd.pc = "segments"
    /\ \/ /\ rd' = ReadFailed(rd, "IoFailure")
          /\ UNCHANGED rpos
       \/ \E n \in TryReadCounts(Len(Unread(rd.stream)), Len(rd.buf),
                                 SegmentsMinBytes(Len(rd.buf))) :
             /\ rpos' = [rpos EXCEPT ![rd.stream] = @ + n]
             /\ rd' = SegmentsClosure(ReadReturned(rd, n), Unread(rd.stream), n)
    /\ UNCHANGED <<pool, wire, closed, held, wr, wlog, written, first>>

\* Mutant of ReadMessageClosure: None is passed on as a result.
ReadMessageClosure_PassesNone(r) == [r EXCEPT !.pc = "done"]

\* read_message's map closure on try_read_message's result.
ReadMessageClosure(r) ==
    IF r.out.value.some THEN [r EXCEPT !.pc = "done"]
    ELSE ReadFailed(r, "PrematureEOF")

ReadMessageMap ==
    /\ rd.pc = "mapping"
    /\ rd' = ReadMessageClosure(rd)
    /\ UNCHANGED <<pool, wire, closed, held, wr, wlog, written, rpos, first>>

\* The caller takes the resolved promise: with Ok the stream comes back.
ReadReturns ==
    /\ rd.pc = "done"
    /\ held' = IF rd.out.kind = "Ok" THEN held \cup {rd.out.stream} ELSE held
    /\ first' = IF first[rd.stream].kind = "Pending"
                THEN [first EXCEPT ![rd.stream] = rd.out] ELSE first
    /\ rd' = IdleRead
    /\ UNCHANGED <<pool, wire, closed, wr, wlog, written, rpos>>

\* ------------------------------------------------------------ specification
Next ==
    \/ \E m \in pool : write_message(m)
    \/ TableWritten
    \/ SegmentWritten
    \/ WriteMessageMap
    \/ WriteReturns
    \/ CloseWriteEnd
    \/ \E s \in ReadStreams : try_read_message(s)
    \/ \E s \in ReadStreams : read_message(s)
    \/ FirstWordRead
    \/ RestRead
    \/ TableRead
    \/ SegmentsRead
    \/ ReadMessageMap
    \/ ReadReturns

Spec == Init /\ [][Next]_vars

\* Every read or write issued completes in the end, with success or with
\* failure, and the event loop runs a closure whose promise has resolved.
\* What the caller does, and when, is left open.
SpecFair ==
    /\ Spec
    /\ WF_vars(TableWritten) /\ WF_vars(SegmentWritten) /\ WF_vars(WriteMessageMap)
    /\ WF_vars(FirstWordRead) /\ WF_vars(RestRead) /\ WF_vars(TableRead)
    /\ WF_vars(SegmentsRead) /\ WF_vars(ReadMessageMap)

\* ------------------------------------------- the segment table codec alone
\* Segment counts at the decoder's limit.
LimitCounts == {SegmentCountLimit - 1, SegmentCountLimit, SegmentCountLimit + 1}

\* The segment lengths of the builders whose table is encoded and decoded:
\* every choice for a small segment count, one choice at each limit count.
TableLens ==
    UNION {[1..n -> 0..MaxLen] : n \in 1..MaxTableSegs}
        \cup {[i \in 1..n |-> i % (MaxLen + 1)] : n \in LimitCounts}

InitCodec ==
    /\ pool \in {{BuilderOf(lens)} : lens \in TableLens}
    /\ wire = <<>>
    /\ closed = FALSE
    /\ held = {}
    /\ wr = IdleWrite
    /\ wlog = <<>>
    /\ written = <<>>
    /\ rd = IdleRead
    /\ rpos = [s \in ReadStreams |-> 0]
    /\ first = [s \in ReadStreams |-> Pending(None)]

\* try_read_segment_table on a stream that delivers `bytes` and then ends:
\* the first closure, then the second if a second read was issued.
try_read_segment_table(bytes) ==
    LET r0 == [IdleRead EXCEPT !.pc = "first", !.buf = Zeros(BytesPerWord),
                               !.nreads = 1]
        n1 == Min(Len(r0.buf), Len(bytes))
        r1 == FirstWordClosure(ReadReturned(r0, n1), bytes, n1)
        rest == SubSeq(bytes, n1 + 1, Len(bytes))
        n2 == Min(Len(r1.buf), Len(rest))
    IN  IF r1.pc = "rest" THEN RestClosure(ReadReturned(r1, n2), rest, n2) ELSE r1

\* write_segment_table's header buffer for the caller's builder.
EncodeTable ==
    /\ wire = <<>> /\ rd.pc = "idle"
    /\ \E m \in pool : wire' = SegmentTableBuf(OutputSegmentsContainer_new(m).segments)
    /\ UNCHANGED <<pool, closed, held, wr, wlog, written, rd, rpos, first>>

\* try_read_segment_table on that header.
DecodeTable ==
    /\ wire # <<>> /\ rd.pc = "idle"
    /\ rd' = try_read_segment_table(wire)
    /\ UNCHANGED <<pool, wire, closed, held, wr, wlog, written, rpos, first>>

NextCodec == EncodeTable \/ DecodeTable

SpecCodec == InitCodec /\ [][NextCodec]_vars

\* ------------------------------------------------------------------ claims
\* What get_segment serves from `store` is `message`, segment by segment,
\* and nothing beyond its last segment.
StoreHolds(store, message) ==
    /\ Len(store.segment_slices) = Len(message)
    /\ \A id \in 0..Len(message) :
          get_segment(store, id) =
              IF id < Len(message)
              THEN [some |-> TRUE, words |-> message[id + 1]]
              ELSE [some |-> FALSE, words |-> <<>>]

\* All words of a builder, segment after segment.
RECURSIVE AllWords(_)
AllWords(message) ==
    IF message = <<>> THEN <<>> ELSE Head(message) \o AllWords(Tail(message))

\* C1 (round trip): read_message on the bytes a successful write_message
\* put on the transport yields, unless the transport fails, a message with
\* the same segment count, the same segment lengths and the same words.
C1_RoundTrip ==
    \A i \in 1..Len(written) :
        (/\ rd.pc = "done"
         /\ rd.op = "read_message"
         /\ rd.start = written[i].at
         /\ rd.out.error # "IoFailure")
        => /\ rd.out.kind = "Ok"
           /\ rd.out.value.some
           /\ StoreHolds(rd.out.value, written[i].message)

C1_Witness ==
    /\ rd.pc = "done" /\ rd.op = "read_message" /\ rd.out.kind = "Ok"
    /\ Len(written) >= 1 /\ rd.start = written[1].at
    /\ Len(rd.out.value.segment_slices) = 3
    /\ Len(rd.out.value.owned_space) >= 2

\* C2 (clean end of stream): when the first header read returns zero
\* bytes, no further read is issued and nothing is consumed or allocated;
\* try_read_message resolves to the stream and None, read_message to an error.
C2_CleanEof ==
    (Len(rd.io) >= 1 /\ rd.io[1].n = 0)
    => /\ rd.nreads = 1 /\ Len(rd.io) = 1 /\ ~rd.allocated
       /\ rpos[rd.stream] = rd.start
       /\ rd.pc \in {"table", "mapping", "done"}
       /\ (rd.pc = "done" /\ rd.op = "try_read_message")
              => rd.out = Ok(rd.stream, None)
       /\ (rd.pc = "done" /\ rd.op = "read_message")
              => rd.out.kind = "Err" /\ ~rd.out.value.some

\* try_read_message returned None on a stream, and read_message, called on
\* the stream it handed back, ended in an error.
C2_Witness ==
    /\ first[FirstStream] = Ok(FirstStream, None)
    /\ rd.pc = "done" /\ rd.op = "read_message" /\ rd.stream = FirstStream
    /\ rd.io = <<[want |-> 8, n |-> 0]>>
    /\ rd.out.kind = "Err"

\* A read of pipeline r came back short, other than the zero-byte first
\* header read.
ShortRead(r) ==
    \E i \in 1..Len(r.io) :
        r.io[i].n < r.io[i].want /\ ~(i = 1 /\ r.io[i].n = 0)

\* C3 (premature end of stream): a short first header read of 1 to 7
\* bytes, a short second header chunk or a short body read (zero bytes
\* included) ends both entry points in an error, never in None or a message.
C3_PrematureEof ==
    ShortRead(rd)
    => /\ rd.pc = "done"
       /\ rd.out.kind = "Err"
       /\ rd.out.error = "PrematureEOF"
       /\ ~rd.out.value.some

\* The body read of a message with words returned zero bytes.
C3_Witness ==
    /\ rd.pc = "done" /\ Len(rd.io) = 3
    /\ rd.io[3].n = 0 /\ rd.io[3].want > 0
    /\ rd.out.kind = "Err"

\* The segment count the first header word of pipeline r's message decodes to.
FirstWordCount(r) == wrapping_add_1(SubSeq(wire, r.start + 1, r.start + 8))

\* C4 (boundary rejection): a first header word whose count decodes to 0
\* or to 512 or more makes the pipeline resolve to an error, before any
\* body buffer is allocated and before any further read.
C4_BoundaryRejection ==
    (/\ Len(rd.io) >= 1 /\ rd.io[1].n = 8
     /\ (FirstWordCount(rd) = 0 \/ FirstWordCount(rd) >= 512))
    => /\ rd.pc = "done"
       /\ rd.out.kind = "Err"
       /\ ~rd.allocated
       /\ rd.nreads = 1

\* C5 (write ordering): write_message issues the header write, then the
\* segment writes in index order, each with the segment's exact byte span
\* and each starting where the completed previous write ended; on success
\* the transport holds header, segment 0, ..., segment n-1 and nothing else.
C5_WriteOrdering ==
    wr.pc # "idle"
    => /\ Len(wlog) >= 1 /\ Len(wlog) <= Len(wr.given) + 1
       /\ wlog[1].what = "table"
       /\ \A j \in 2..Len(wlog) :
             /\ wlog[j].what = "segment"
             /\ wlog[j].idx = j - 2
             /\ wlog[j].len = 8 * Len(wr.given[j - 1])
             /\ wlog[j].at = wlog[j - 1].at + wlog[j - 1].len
       /\ wr.pc \in {"table", "segment"} => Len(wire) = wlog[Len(wlog)].at
       /\ wr.out.kind = "Ok"
             => /\ Len(wlog) = Len(wr.given) + 1
                /\ SubSeq(wire, wlog[1].at + 1, Len(wire))
                       = SegmentTableBuf(wr.given) \o words_to_bytes(AllWords(wr.given))

C5_Witness ==
    /\ wr.pc = "done" /\ wr.out.kind = "Ok"
    /\ Len(wr.given) = 3 /\ Len(wlog) = 4
    /\ Len(AllWords(wr.given)) >= 2

\* C6 as stated (stream ownership): the stream handle is handed back when
\* the pipeline ends, on success and on failure alike.
C6_StreamAlwaysReturned ==
    /\ rd.pc = "done" => rd.out.stream = rd.stream
    /\ wr.pc = "done" => wr.out.stream = WriteStream

\* C6 as amended: the stream handle is handed back exactly when the
\* pipeline succeeds (None included); a failed pipeline resolves to the
\* error alone and the handle is gone.  While a pipeline runs the caller
\* does not hold its stream.
C6_StreamReturnedOnSuccess ==
    /\ rd.pc = "done"
          => \/ rd.out.kind = "Ok" /\ rd.out.stream = rd.stream
             \/ rd.out.kind = "Err" /\ rd.out.stream = NoStream
    /\ wr.pc = "done"
          => \/ wr.out.kind = "Ok" /\ wr.out.stream = WriteStream
             \/ wr.out.kind = "Err" /\ wr.out.stream = NoStream
    /\ rd.pc # "idle" => rd.stream \notin held
    /\ wr.pc # "idle" => WriteStream \notin held

\* A read pipeline that got its header and then met an I/O failure.
C6_Witness ==
    /\ rd.pc = "done" /\ rd.out.kind = "Err" /\ rd.out.error = "IoFailure"
    /\ Len(rd.io) = 2

\* C9 (builder preserved): through the whole write pipeline the builder and
\* the segment view taken from it are those of the builder passed in, and a
\* successful write_message resolves to that builder.
C9_BuilderPreserved ==
    wr.pc # "idle"
    => /\ wr.message = wr.given
       /\ wr.segments = wr.given
       /\ wr.out.kind = "Ok" => wr.out.value = wr.given

C9_Witness ==
    /\ wr.pc = "done" /\ wr.out.kind = "Ok"
    /\ Len(wr.given) = 2 /\ Len(AllWords(wr.given)) = 2

\* C10 (deterministic decoding): two independent streams over the same
\* bytes, whatever byte counts their reads return: when the first decodes a
\* message, the twin (unless its transport fails) decodes the same layout
\* and the same words.
C10_DeterministicDecoding ==
    (/\ first[FirstStream].kind = "Ok" /\ first[FirstStream].value.some
     /\ first[TwinStream].kind # "Pending"
     /\ first[TwinStream].error # "IoFailure")
    => /\ first[TwinStream].kind = "Ok"
       /\ first[TwinStream].value = first[FirstStream].value

C10_Witness ==
    /\ first[FirstStream].kind = "Ok" /\ first[TwinStream].kind = "Ok"
    /\ first[FirstStream].value.some
    /\ first[TwinStream].value = first[FirstStream].value
    /\ Len(first[TwinStream].value.segment_slices) = 3
    /\ Len(first[TwinStream].value.owned_space) >= 2

\* The decoder accepted the header and its layout has the builder's
\* segment lengths, in order.
SameLengths(r, message) ==
    /\ r.pc = "table" /\ r.table = "Some"
    /\ Len(r.segment_slices) = Len(message)
    /\ \A i \in 1..Len(message) :
          r.segment_slices[i][2] - r.segment_slices[i][1] = Len(message[i])

\* C7 as stated (encoder/decoder agreement): for every segment count
\* n >= 1 the header write_segment_table builds is accepted by
\* try_read_segment_table and parses back into the same n lengths.
C7_AnyCountAgrees ==
    \A m \in pool : rd.pc # "idle" => SameLengths(rd, m)

\* C7 as amended: the same for every segment count 1 <= n <= 511.
C7_ValidCountAgrees ==
    \A m \in pool : (rd.pc # "idle" /\ Len(m) <= 511) => SameLengths(rd, m)

C7_Witness ==
    \E m \in pool : rd.pc # "idle" /\ Len(m) = 511 /\ SameLengths(rd, m)

\* C8 (header size law): for n segments the header is ((n+2) & ~1) * 4
\* bytes long, a whole number of 8-byte words: 8, 16, 16, 24 for n = 1..4.
C8_HeaderSizeLaw ==
    \A m \in pool :
        wire # <<>>
        => LET n == Len(m)
           IN  /\ Len(wire) = 4 * (IF (n + 2) % 2 = 0 THEN n + 2 ELSE n + 1)
               /\ Len(wire) % 8 = 0
               /\ n = 1 => Len(wire) = 8
               /\ n = 2 => Len(wire) = 16
               /\ n = 3 => Len(wire) = 16
               /\ n = 4 => Len(wire) = 24

C8_Witness ==
    \E m \in pool : Len(m) = 4 /\ Len(wire) = 24

\* Scenario B: the builder with three segments of 1, 0 and 3 words.
ScenarioB == BuilderOf(<<1, 0, 3>>)

\* C11 as stated (scenario B header): the header of scenario B is 24 bytes:
\* the five fields 2, 1, 0, 3, 0 and four more zero bytes of padding.
C11_ScenarioBHeader24 ==
    (ScenarioB \in pool /\ wire # <<>>)
    => wire = <<2, 0, 0, 0,  1, 0, 0, 0,  0, 0, 0, 0,  3, 0, 0, 0,
                0, 0, 0, 0,  0, 0, 0, 0>>

\* C11 as amended: the header of scenario B is 16 bytes, the four fields
\* 2, 1, 0, 3 and no padding slot; the decoder takes it in two reads of 8
\* bytes and parses the layout [(0,1),(1,1),(1,4)] with 4 words in total.
C11_ScenarioBHeader16 ==
    (ScenarioB \in pool /\ wire # <<>>)
    => /\ wire = <<2, 0, 0, 0,  1, 0, 0, 0,  0, 0, 0, 0,  3, 0, 0, 0>>
       /\ rd.pc # "idle"
             => /\ rd.pc = "table" /\ rd.table = "Some"
                /\ rd.io = <<[want |-> 8, n |-> 8], [want |-> 8, n |-> 8]>>
                /\ rd.segment_slices = <<<<0, 1>>, <<1, 1>>, <<1, 4>>>>
                /\ rd.total_words = 4

C11_Witness ==
    /\ ScenarioB \in pool /\ Len(wire) = 16
    /\ rd.pc = "table" /\ rd.segment_count = 3

\* The wire format, read off the transport for the message that starts at
\* byte `at`: its segment count, the declared length of segment i, the
\* word offset of segment i in the body, and the first body byte.
WireCount(at) == wrapping_add_1(SubSeq(wire, at + 1, at + 8))
WireLen(at, i) == read_u32(wire, at + 4 * (i + 1))
RECURSIVE WireOffset(_, _)
WireOffset(at, i) == IF i = 0 THEN 0 ELSE WireOffset(at, i - 1) + WireLen(at, i - 1)
WireBody(at) == at + 4 * (IF WireCount(at) % 2 = 0 THEN WireCount(at) + 2
                                                  ELSE WireCount(at) + 1)

\* The words of segment i of the message at `at`, as they are on the wire.
WireSegment(at, i) ==
    bytes_to_words(SubSeq(wire, WireBody(at) + 8 * WireOffset(at, i) + 1,
                                WireBody(at) + 8 * WireOffset(at, i + 1)))

\* Pipeline r has produced an Owned Segment Store.
HasStore(r) == r.pc \in {"mapping", "done"} /\ r.out.kind = "Ok" /\ r.out.value.some

\* get_segment on the store serves segment id of the wire for id < n and
\* nothing for id >= n.
StoreLookup ==
    HasStore(rd)
    => LET n == WireCount(rd.start)
       IN  \A id \in 0..(n + 1) :
               get_segment(rd.out.value, id) =
                   IF id < n
                   THEN [some |-> TRUE, words |-> WireSegment(rd.start, id)]
                   ELSE [some |-> FALSE, words |-> <<>>]

\* No step changes a store once it exists: neither the one the pipeline
\* holds nor the one the caller was handed.
StoreKept ==
    /\ (HasStore(rd) /\ rd'.pc # "idle") => rd'.out.value = rd.out.value
    /\ \A s \in ReadStreams : first[s].kind # "Pending" => first'[s] = first[s]

\* C12 (store lookup): get_segment(id) on a decoded store returns, for
\* id < n, the words of the id-th segment that was on the wire, and None for
\* id >= n; the store does not change after it is created.
C12_StoreLookup == []StoreLookup /\ [][StoreKept]_vars

C12_Witness ==
    /\ HasStore(rd) /\ rd.pc = "done" /\ rd.op = "try_read_message"
    /\ WireCount(rd.start) = 3
    /\ get_segment(rd.out.value, 0).words # <<>>
    /\ get_segment(rd.out.value, 2).words # <<>>
    /\ ~get_segment(rd.out.value, 3).some

\* The sum of the declared lengths of segments lo .. hi-1 of the message
\* at `at`, the range split in halves.
RECURSIVE WireSum(_, _, _)
WireSum(at, lo, hi) ==
    IF hi <= lo THEN 0
    ELSE IF hi = lo + 1 THEN WireLen(at, lo)
    ELSE LET mid == (lo + hi) \div 2
             left == WireSum(at, lo, mid)
         IN  IF left >= 0 THEN left + WireSum(at, mid, hi) ELSE left

\* C13 (layout invariant): a layout the decoder returns for a header of n
\* segments has n pairs, starts at 0, has start <= end in every pair, each
\* pair ending where the next starts, each as long as the declared length,
\* and the last ending at total_words, the sum of the declared lengths.
C13_LayoutInvariant ==
    (rd.pc = "table" /\ rd.table = "Some")
    => LET n == WireCount(0)
           sl == rd.segment_slices
       IN  /\ Len(sl) = n
           /\ sl[1][1] = 0
           /\ \A i \in 1..n :
                 /\ sl[i][1] <= sl[i][2]
                 /\ sl[i][2] - sl[i][1] = WireLen(0, i - 1)
                 /\ i < n => sl[i][2] = sl[i + 1][1]
           /\ sl[n][2] = rd.total_words
           /\ rd.total_words = WireSum(0, 0, n)
           /\ ScenarioB \in pool
                 => sl = <<<<0, 1>>, <<1, 1>>, <<1, 4>>>> /\ rd.total_words = 4

C13_Witness ==
    /\ rd.pc = "table" /\ rd.table = "Some"
    /\ Len(rd.segment_slices) = 4 /\ rd.total_words = 9
    /\ rd.segment_slices[2][1] = rd.segment_slices[2][2]

\* The header bytes of a message of n segments: one word, and one more
\* for every two of the n - 1 remaining lengths, the last one rounded up.
HeaderBytes(n) == 8 * (1 + (n \div 2))

\* For every accepted count the two header reads add up to the encoder's
\* header length.
HeaderLawToLimit ==
    \A k \in 1..(SegmentCountLimit - 1) :
        /\ HeaderBytes(k) = SegmentTableLen(k)
        /\ 8 + (IF k > 1 THEN 4 * ClearLowBit(k) ELSE 0) = HeaderBytes(k)

\* C14 (exact header consumption): for an accepted count n the decoder
\* asks for 8 bytes and then, only if n > 1, for 4 * (n & ~1) more, which
\* together are the encoder's header length; the body read is issued after
\* the whole table is read and starts at the first body byte.
C14_ExactHeaderConsumption ==
    LET n == WireCount(rd.start)
        at == rpos[rd.stream] - rd.start
    IN  (Len(rd.io) >= 1 /\ rd.io[1].n = 8 /\ n \in 1..511)
        => /\ rd.io[1].want = 8
           /\ HeaderLawToLimit
           /\ HeaderBytes(n) = SegmentTableLen(n)
           /\ rd.pc = "rest"
                 => /\ n > 1 /\ Len(rd.io) = 1 /\ at = 8
                    /\ Len(rd.buf) = 4 * ClearLowBit(n)
           /\ (n > 1 /\ Len(rd.io) >= 2)
                 => /\ rd.io[2].want = 4 * ClearLowBit(n)
                    /\ 8 + rd.io[2].want = HeaderBytes(n)
           /\ (n = 1 /\ Len(rd.io) >= 2) => rd.io[2].want = 8 * rd.total_words
           /\ (rd.pc = "table" \/ rd.pc = "segments")
                 => /\ at = HeaderBytes(n)
                    /\ Len(rd.io) = IF n > 1 THEN 2 ELSE 1
                    /\ \A i \in 1..Len(rd.io) : rd.io[i].n = rd.io[i].want
           /\ rd.pc = "segments" => rd.nreads = Len(rd.io) + 1
           /\ HasStore(rd)
                 => /\ Len(rd.io) = IF n > 1 THEN 3 ELSE 2
                    /\ at = HeaderBytes(n) + 8 * Len(rd.out.value.owned_space)
                    /\ rd.out.value.owned_space
                           = bytes_to_words(SubSeq(wire, rd.start + HeaderBytes(n) + 1,
                                                   rpos[rd.stream]))

\* The body read of a four-segment message is outstanding.
C14_Witness ==
    /\ rd.pc = "segments" /\ WireCount(rd.start) = 4
    /\ rd.io = <<[want |-> 8, n |-> 8], [want |-> 16, n |-> 16]>>
    /\ rpos[rd.stream] = rd.start + 24

\* The bytes a complete write_message of `message` puts on the transport.
MessageBytes(message) == SegmentTableBuf(message) \o words_to_bytes(AllWords(message))

\* A read of pipeline r is outstanding.
ReadOutstanding(r) == r.pc \in {"first", "rest", "segments"}

\* After a failure nothing more was issued: every read issued has returned,
\* is outstanding or is the one that failed; a short read is the last
\* read; a failed read pipeline carries no store; a failed write left a
\* proper prefix of the message that ends inside the write that failed; a
\* stream whose pipeline failed is not used again.
FailureState ==
    /\ rd.pc # "idle"
          => rd.nreads = Len(rd.io) + (IF ReadOutstanding(rd) THEN 1 ELSE 0)
                 + (IF rd.pc = "done" /\ rd.out.error = "IoFailure" THEN 1 ELSE 0)
    /\ \A i \in 1..Len(rd.io) :
          rd.io[i].n < rd.io[i].want => i = Len(rd.io) /\ ~ReadOutstanding(rd)
    /\ (rd.pc = "done" /\ rd.out.kind = "Err")
          => /\ ~rd.out.value.some
             /\ rd.out.error \in {"IoFailure", "PrematureEOF"}
    /\ (wr.pc = "done" /\ wr.out.kind = "Err")
          => LET last == wlog[Len(wlog)]
                 sent == SubSeq(wire, wlog[1].at + 1, Len(wire))
             IN  /\ wr.out.error = "IoFailure"
                 /\ sent = SubSeq(MessageBytes(wr.given), 1, Len(sent))
                 /\ Len(wire) >= last.at
                 /\ Len(wire) <= last.at + last.len
                 /\ last.len > 0 => Len(wire) < last.at + last.len
                 /\ Len(wlog) = 1 => Len(sent) < Len(SegmentTableBuf(wr.given))
    /\ \A s \in ReadStreams : first[s].kind = "Err" => s \notin held /\ rd.stream # s

\* The step after a failure hands the failure to the caller and touches
\* neither the stream nor the transport.
FailureStep ==
    /\ (rd.pc = "done" /\ rd.out.kind = "Err")
          => rd' = IdleRead /\ rpos' = rpos /\ rd.stream \notin held'
    /\ (wr.pc = "done" /\ wr.out.kind = "Err")
          => wr' = IdleWrite /\ wire' = wire /\ wlog' = wlog /\ WriteStream \notin held'
    /\ closed => wire' = wire

\* C15 (failure is terminal): once a read or write of a pipeline fails, the
\* pipeline issues nothing more on the stream and resolves to that failure:
\* a failed header write leaves no segment bytes, a failed write of segment
\* i leaves no later segment, and a failed read pipeline gives no store.
C15_FailureTerminal == []FailureState /\ [][FailureStep]_vars

\* The write of segment 0 failed after three of its bytes.
C15_Witness ==
    /\ wr.pc = "done" /\ wr.out.kind = "Err"
    /\ Len(wlog) = 2 /\ Len(wr.given) = 3
    /\ Len(wire) = wlog[2].at + 3

\* The reads of pipeline r that have resolved: returned or failed.
ReadsResolved(r) ==
    Len(r.io) + (IF r.pc = "done" /\ r.out.error = "IoFailure" THEN 1 ELSE 0)

\* The writes of the current write_message call whose bytes are not all
\* on the transport.
WritesIncomplete == {j \in 1..Len(wlog) : wlog[j].at + wlog[j].len > Len(wire)}

\* C16 (single outstanding operation): a pipeline has at most one read or
\* write outstanding on its stream: a read is issued when every earlier
\* read has resolved, a write when the bytes of every earlier write are on
\* the transport; the caller has no handle to the stream meanwhile.
C16_SingleOutstanding ==
    /\ rd.pc # "idle"
          => /\ rd.nreads - ReadsResolved(rd) \in {0, 1}
             /\ rd.nreads - ReadsResolved(rd) = 1 <=> ReadOutstanding(rd)
             /\ rd.stream \notin held
    /\ wr.pc # "idle"
          => /\ \A j \in 2..Len(wlog) : wlog[j].at >= wlog[j - 1].at + wlog[j - 1].len
             /\ WritesIncomplete \subseteq {Len(wlog)}
             /\ wr.pc \in {"segments_done"} => WritesIncomplete = {}
             /\ WriteStream \notin held

\* The write of the third segment is outstanding, none of its bytes out.
C16_Witness ==
    /\ wr.pc = "segment" /\ wr.idx = 2 /\ Len(wlog) = 4
    /\ WritesIncomplete = {4}

\* C17 (pipelines run to completion or failure): if every read and write
\* issued completes, a write_message over n segments resolves after at most
\* n + 1 writes and a read_message or try_read_message after at most 3
\* reads; no pipeline stays pending forever.
C17_PipelinesResolve ==
    /\ [](wr.pc # "idle" => Len(wlog) <= Len(wr.given) + 1)
    /\ [](rd.nreads <= 3)
    /\ (wr.pc # "idle") ~> (wr.pc = "done")
    /\ (rd.pc # "idle") ~> (rd.pc = "done")

\* The same, a read pipeline that stopped in unimplemented!() set aside.
C17_ResolveOrPanic ==
    /\ [](wr.pc # "idle" => Len(wlog) <= Len(wr.given) + 1)
    /\ [](rd.nreads <= 3)
    /\ (wr.pc # "idle") ~> (wr.pc = "done")
    /\ (rd.pc # "idle") ~> (rd.pc = "done" \/ rd.pc = "panicked")

\* The four bytes of `buf` from byte offset off are v, least significant
\* byte first.
HoldsU32(buf, off, v) ==
    /\ buf[off + 1] = v % 256
    /\ buf[off + 2] = (v \div 256) % 256
    /\ buf[off + 3] = (v \div 65536) % 256
    /\ buf[off + 4] = (v \div 16777216) % 256

\* C18 (encoder header layout): the header of n segments holds n - 1 at
\* offset 0, the word length of segment i at offset (i + 1) * 4 for every
\* i < n and, when n is even, one more slot of four zero bytes; it holds
\* nothing else.
C18_EncoderHeaderLayout ==
    \A m \in pool :
        wire # <<>>
        => LET n == Len(m)
           IN  /\ Len(wire) = 4 * (n + 1) + (IF n % 2 = 0 THEN 4 ELSE 0)
               /\ HoldsU32(wire, 0, n - 1)
               /\ \A i \in 0..(n - 1) : HoldsU32(wire, (i + 1) * 4, Len(m[i + 1]))
               /\ n % 2 = 0 => HoldsU32(wire, (n + 1) * 4, 0)

\* The header of 512 segments: count field ff 01 00 00, a padding slot.
C18_Witness ==
    \E m \in pool :
        /\ Len(m) = 512 /\ Len(wire) = 2056
        /\ SubSeq(wire, 1, 4) = <<255, 1, 0, 0>>
        /\ SubSeq(wire, 2049, 2056) = <<0, 0, 0, 0, 0, 0, 0, 0>>

\* Where the i-th message written ends on the transport.
WrittenEnd(i) == written[i].at + Len(MessageBytes(written[i].message))

\* The transport holds the messages written, back to back, and nothing
\* else, and its write end is closed.
BackToBack ==
    /\ closed
    /\ \A i \in 1..Len(written) :
          written[i].at = IF i = 1 THEN 0 ELSE WrittenEnd(i - 1)
    /\ Len(wire) = IF written = <<>> THEN 0 ELSE WrittenEnd(Len(written))

\* C19 (message sequence): on a closed stream of k messages written back
\* to back, a try_read_message call starts at the first byte of a message
\* or at the end; at message i it returns message i and leaves the stream
\* at the end of message i, where the next call starts; at the end it
\* returns None.  So k + 1 successive calls give the k messages in the order
\* written and then None.
C19_MessageSequence ==
    (/\ BackToBack
     /\ rd.pc = "done" /\ rd.op = "try_read_message"
     /\ rd.out.error # "IoFailure")
    => /\ \/ rd.start = Len(wire)
          \/ \E i \in 1..Len(written) : rd.start = written[i].at
       /\ \A i \in 1..Len(written) :
             rd.start = written[i].at
             => /\ rd.out.kind = "Ok" /\ rd.out.stream = rd.stream
                /\ rd.out.value.some
                /\ StoreHolds(rd.out.value, written[i].message)
                /\ rpos[rd.stream] = WrittenEnd(i)
       /\ rd.start = Len(wire)
             => rd.out = Ok(rd.stream, None) /\ rpos[rd.stream] = Len(wire)

\* Two different messages were written; the third call on the stream has
\* returned None.
C19_Witness ==
    /\ BackToBack /\ Len(written) = 2
    /\ written[1].message # written[2].message
    /\ rd.pc = "done" /\ rd.op = "try_read_message"
    /\ rd.start = Len(wire) /\ rd.out = Ok(rd.stream, None)

\* What the bytes on the transport from byte `at` on decode to, by the
\* wire format alone: nothing there, a message cut short, a count out of
\* range, or a whole message.
ExpectedOutcome(at) ==
    LET avail == Len(wire) - at
        n == WireCount(at)
        body == at + HeaderBytes(n)
        total == WireSum(at, 0, n)
    IN  IF avail = 0 THEN [kind |-> "Ok", value |-> None, error |-> ""]
        ELSE IF avail < 8 THEN [kind |-> "Err", value |-> None, error |-> "PrematureEOF"]
        ELSE IF n = 0 \/ n >= SegmentCountLimit
        THEN [kind |-> "Panic", value |-> None, error |-> ""]
        ELSE IF avail < HeaderBytes(n)
        THEN [kind |-> "Err", value |-> None, error |-> "PrematureEOF"]
        ELSE IF avail < HeaderBytes(n) + 8 * total
        THEN [kind |-> "Err", value |-> None, error |-> "PrematureEOF"]
        ELSE [kind |-> "Ok", error |-> "",
              value |-> Some([segment_slices |->
                                  [i \in 1..n |-> <<WireSum(at, 0, i - 1),
                                                    WireSum(at, 0, i)>>],
                              owned_space |->
                                  bytes_to_words(SubSeq(wire, body + 1,
                                                        body + 8 * total))])]

\* C20 (partial-I/O independence): whatever byte counts the reads return,
\* the outcome of try_read_message is the one the bytes on the stream
\* decide: bytes that are there are never reported as a short read, and
\* with two segments the length of segment 1 is the one on the wire, not
\* what the first header word left in the reused buffer.
C20_PartialIoIndependence ==
    (/\ rd.pc \in {"done", "panicked"} /\ rd.op = "try_read_message"
     /\ rd.out.error # "IoFailure")
    => LET e == ExpectedOutcome(rd.start)
       IN  /\ rd.pc = "panicked" <=> e.kind = "Panic"
           /\ rd.pc = "done"
                 => /\ rd.out.kind = e.kind
                    /\ rd.out.value = e.value
                    /\ rd.out.error = e.error
           /\ (rd.pc = "done" /\ rd.segment_count = 2 /\ Len(rd.io) >= 2
                  /\ rd.io[2].n = 8)
                 => rd.segment_slices[2][2] - rd.segment_slices[2][1]
                        = WireLen(rd.start, 1)

\* A message of two segments, of one word and of none, was decoded through
\* the reused 8-byte buffer.
C20_Witness ==
    /\ rd.pc = "done" /\ rd.op = "try_read_message" /\ rd.out.kind = "Ok"
    /\ rd.segment_count = 2
    /\ rd.io = <<[want |-> 8, n |-> 8], [want |-> 8, n |-> 8], [want |-> 8, n |-> 8]>>
    /\ rd.out.value.segment_slices = <<<<0, 1>>, <<1, 1>>>>

====
